---- MODULE Spec2Model ----
(***************************************************************************)
(* A model of trie.py: the Trie class (a prefix tree held as nested Python *)
(* dicts), its memoized membership test, attribute assignment,             *)
(* autocompletion and JSON persistence.                                    *)
(*                                                                         *)
(* A Python str is modelled as the sequence of its characters, each a      *)
(* one-character TLA+ string, so that iterating a str, splitting it on the *)
(* delimiter and writing it into a line of JSON text are all computed.     *)
(* The language is Python 3 (setup.py, 'Programming Language :: Python ::  *)
(* 3.6'; trie.py imports enum): a str has __iter__, and a dict iterates in *)
(* insertion order.                                                        *)
(***************************************************************************)
EXTENDS Integers, Sequences, FiniteSets, TLC

(***************************************************************************)
(* Python values.  A dict is the sequence of its <<key, value>> items in   *)
(* insertion order.                                                        *)
(***************************************************************************)
PyStr(s) == [tag |-> "str", val |-> s]
PyInt(n) == [tag |-> "int", val |-> n]
PyDict(items) == [tag |-> "dict", val |-> items]
PyNone == [tag |-> "none", val |-> <<>>]
EmptyDict == PyDict(<<>>)

\* The outcome of a call: the exception it raised ("none" when it returned) and
\* what it returned or left behind.
Ok(v) == [exc |-> "none", val |-> v]
Raise(e, v) == [exc |-> e, val |-> v]

\* The empty token '' (the terminal symbol of trie.py).
Empty == <<>>

HasKey(d, k) == \E i \in 1..Len(d.val) : d.val[i][1] = k
IndexOfKey(d, k) == CHOOSE i \in 1..Len(d.val) : d.val[i][1] = k
GetItem(d, k) == d.val[IndexOfKey(d, k)][2]

\* (mutant) the item is appended even when the key is there already.
SetItem_append(d, k, v) == PyDict(Append(d.val, <<k, v>>))

\* d[k] = v on a dict: an existing key keeps its place, a new key goes last.
SetItem(d, k, v) ==
    IF HasKey(d, k)
    THEN PyDict([d.val EXCEPT ![IndexOfKey(d, k)] = <<k, v>>])
    ELSE PyDict(Append(d.val, <<k, v>>))

\* curr_node[char]: KeyError on a dict without the key, TypeError on a value
\* that is no dict (a str indexed by a str, an int, PyNone).
subscript(node, key) ==
    IF node.tag = "dict"
    THEN IF HasKey(node, key) THEN Ok(GetItem(node, key)) ELSE Raise("KeyError", PyNone)
    ELSE Raise("TypeError", PyNone)

\* (mutant) every node reached counts as the end of a word.
in_empty_always(node) == Ok(TRUE)

\* '' in curr_node: key membership on a dict, substring test on a str (always
\* true for ''), TypeError on a value that is no container.
in_empty(node) ==
    CASE node.tag = "dict" -> Ok(HasKey(node, Empty))
      [] node.tag = "str" -> Ok(TRUE)
      [] OTHER -> Raise("TypeError", FALSE)

(***************************************************************************)
(* Tokenization.                                                           *)
(***************************************************************************)
Delimiter == ":"

\* word.split(delimiter) for a one-character delimiter.
RECURSIVE split(_, _)
split(word, sep) ==
    IF \E i \in 1..Len(word) : word[i] = sep
    THEN LET i == CHOOSE j \in 1..Len(word) :
                      word[j] = sep /\ \A h \in 1..(j - 1) : word[h] # sep
         IN <<SubSeq(word, 1, i - 1)>> \o split(SubSeq(word, i + 1, Len(word)), sep)
    ELSE <<word>>

\* Iterating a str yields its characters, each a str of length 1.
chars_of(word) == [i \in 1..Len(word) |-> <<word[i]>>]

get_iterator(type, word) ==
    CASE type = "STANDARD" -> Ok(chars_of(word))
      [] type = "EXTENDED" -> Ok(split(word, Delimiter))
      [] OTHER -> Raise("NotImplementedError", <<>>)

(***************************************************************************)
(* Membership: the undecorated __contains__ and the memoize wrapper.       *)
(***************************************************************************)
RECURSIVE contains_walk(_, _)
contains_walk(node, toks) ==
    IF toks = <<>>
    THEN in_empty(node)
    ELSE LET r == subscript(node, Head(toks))
         IN CASE r.exc = "KeyError" -> Ok(FALSE)
              [] r.exc = "TypeError" -> Raise("TypeError", FALSE)
              [] OTHER -> contains_walk(r.val, Tail(toks))

contains(type, node, word) ==
    LET it == get_iterator(type, word)
    IN IF it.exc # "none" THEN Raise(it.exc, FALSE) ELSE contains_walk(node, it.val)

\* (mutant) the cache is looked up by the word alone, whichever trie it is.
memoize_call_shared(memo, t, type, node, word) ==
    IF \E a \in DOMAIN memo : a[2] = word
    THEN [exc |-> "none",
          val |-> memo[CHOOSE a \in DOMAIN memo : a[2] = word],
          cache |-> memo]
    ELSE LET r == contains(type, node, word)
         IN IF r.exc = "none"
            THEN [exc |-> "none", val |-> r.val,
                  cache |-> [a \in DOMAIN memo \cup {<<t, word>>} |->
                               IF a = <<t, word>> THEN r.val ELSE memo[a]]]
            ELSE [exc |-> r.exc, val |-> FALSE, cache |-> memo]

\* (mutant) the function is evaluated again on a cache hit.
memoize_call_reevaluating(memo, t, type, node, word) ==
    LET r == contains(type, node, word)
    IN IF r.exc = "none"
       THEN [exc |-> "none", val |-> r.val,
             cache |-> [a \in DOMAIN memo \cup {<<t, word>>} |->
                          IF a = <<t, word>> THEN r.val ELSE memo[a]]]
       ELSE [exc |-> r.exc, val |-> FALSE, cache |-> memo]

\* memoize.__call__ with args = (trie, word): the cache is a function from
\* <<trie, word>> to the cached value.
memoize_call(memo, t, type, node, word) ==
    IF <<t, word>> \in DOMAIN memo
    THEN [exc |-> "none", val |-> memo[<<t, word>>], cache |-> memo]
    ELSE LET r == contains(type, node, word)
         IN IF r.exc = "none"
            THEN [exc |-> "none", val |-> r.val,
                  cache |-> [a \in DOMAIN memo \cup {<<t, word>>} |->
                               IF a = <<t, word>> THEN r.val ELSE memo[a]]]
            ELSE [exc |-> r.exc, val |-> FALSE, cache |-> memo]

(***************************************************************************)
(* Insertion and attribute assignment.  Each returns the root as the call  *)
(* leaves it.                                                              *)
(***************************************************************************)
RECURSIVE add_walk(_, _, _)
add_walk(node, toks, word) ==
    IF toks = <<>>
    THEN IF node.tag = "dict"
         THEN Ok(SetItem(node, Empty, PyStr(word)))
         ELSE Raise("TypeError", node)
    ELSE LET r == subscript(node, Head(toks))
         IN IF r.exc = "TypeError"
            THEN Raise("TypeError", node)
            ELSE LET child == IF r.exc = "KeyError" THEN EmptyDict ELSE r.val
                     sub == add_walk(child, Tail(toks), word)
                 IN IF sub.exc # "none"
                    THEN Raise(sub.exc, node)
                    ELSE Ok(SetItem(node, Head(toks), sub.val))

\* (mutant) the word is walked character by character in either mode.
add_by_chars(type, node, word) ==
    LET it == get_iterator(type, word)
    IN IF it.exc # "none" THEN Raise(it.exc, node) ELSE add_walk(node, chars_of(word), word)

\* (mutant) the root is given the terminal marker as well.
add_marking(type, node, word) ==
    LET it == get_iterator(type, word)
        r == add_walk(node, it.val, word)
    IN IF it.exc # "none"
       THEN Raise(it.exc, node)
       ELSE IF r.exc # "none" THEN r ELSE Ok(SetItem(r.val, Empty, PyStr(word)))

add(type, node, word) ==
    LET it == get_iterator(type, word)
    IN IF it.exc # "none" THEN Raise(it.exc, node) ELSE add_walk(node, it.val, word)

\* update(words): add each in turn; an exception ends the loop and keeps the
\* insertions made so far.
RECURSIVE update(_, _, _)
update(type, node, words) ==
    IF words = <<>>
    THEN Ok(node)
    ELSE LET r == add(type, node, Head(words))
         IN IF r.exc # "none" THEN r ELSE update(type, r.val, Tail(words))

RECURSIVE assign_walk(_, _, _, _)
assign_walk(node, toks, key, value) ==
    IF toks = <<>>
    THEN IF node.tag = "dict"
         THEN Ok(SetItem(node, key, value))
         ELSE Raise("TypeError", node)
    ELSE LET r == subscript(node, Head(toks))
         IN CASE r.exc = "KeyError" -> Ok(node)
              [] r.exc = "TypeError" -> Raise("TypeError", node)
              [] OTHER ->
                   LET sub == assign_walk(r.val, Tail(toks), key, value)
                   IN IF sub.exc # "none"
                      THEN Raise(sub.exc, node)
                      ELSE Ok(SetItem(node, Head(toks), sub.val))

\* (mutant) the KeyError of a missing token is not caught.
RECURSIVE assign_walk_raising(_, _, _, _)
assign_walk_raising(node, toks, key, value) ==
    IF toks = <<>>
    THEN assign_walk(node, toks, key, value)
    ELSE LET r == subscript(node, Head(toks))
         IN IF r.exc # "none"
            THEN Raise(r.exc, node)
            ELSE LET sub == assign_walk_raising(r.val, Tail(toks), key, value)
                 IN IF sub.exc # "none"
                    THEN Raise(sub.exc, node)
                    ELSE Ok(SetItem(node, Head(toks), sub.val))
assign_raising(type, node, word, key, value) ==
    LET it == get_iterator(type, word)
    IN IF it.exc # "none"
       THEN Raise(it.exc, node)
       ELSE assign_walk_raising(node, it.val, key, value)

\* (mutant) the value is stored only in a node that carries the terminal marker.
assign_keys_only(type, node, word, key, value) ==
    LET it == get_iterator(type, word)
        r == contains(type, node, word)
    IN IF it.exc # "none"
       THEN Raise(it.exc, node)
       ELSE IF r.exc = "none" /\ ~r.val
            THEN Ok(node)
            ELSE assign_walk(node, it.val, key, value)

assign(type, node, word, key, value) ==
    LET it == get_iterator(type, word)
    IN IF it.exc # "none"
       THEN Raise(it.exc, node)
       ELSE assign_walk(node, it.val, key, value)

(***************************************************************************)
(* Autocompletion.  _smash(_traverse(node)) is a generator; its outcome is *)
(* modelled as what consuming it to the end gives: the values it yields,   *)
(* in order, and the exception that ends it (if any).                      *)
(***************************************************************************)
\* Two outcomes in sequence: the second runs only if the first did not raise.
then(a, b) == IF a.exc # "none" THEN a ELSE [exc |-> b.exc, val |-> a.val \o b.val]

\* _smash(i) for a value i that is no generator.  getattr(i, '__iter__', False)
\* is true of a str and of a dict.  Iterating a non-empty str yields strs of
\* length 1, each of which has __iter__ and yields itself again: the recursion
\* never reaches the base case and ends in RecursionError.  Iterating a dict
\* yields its keys, which are strs.  An int or None has no __iter__ and is
\* yielded.
RECURSIVE smash_strs(_)
smash_str(s) == IF s = <<>> THEN Ok(<<>>) ELSE Raise("RecursionError", <<>>)
smash_strs(ss) ==
    IF ss = <<>> THEN Ok(<<>>) ELSE then(smash_str(Head(ss)), smash_strs(Tail(ss)))
smash(i) ==
    CASE i.tag = "str" -> smash_str(i.val)
      [] i.tag = "dict" -> smash_strs([n \in 1..Len(i.val) |-> i.val[n][1]])
      [] OTHER -> Ok(<<i>>)

\* _smash(_traverse(curr_node)): for char in curr_node raises TypeError on a
\* value that is not iterable; on a str it yields characters, none of them '',
\* and curr_node[char] then raises TypeError.
RECURSIVE traverse(_)
RECURSIVE traverse_items(_, _)
traverse_items(node, n) ==
    IF n > Len(node.val)
    THEN Ok(<<>>)
    ELSE LET char == node.val[n][1]
             here == IF char = Empty
                     THEN smash(GetItem(node, Empty))
                     ELSE traverse(GetItem(node, char))
         IN then(here, traverse_items(node, n + 1))
traverse(curr_node) ==
    CASE curr_node.tag = "dict" -> traverse_items(curr_node, 1)
      [] curr_node.tag = "str" ->
           IF curr_node.val = <<>> THEN Ok(<<>>) ELSE Raise("TypeError", <<>>)
      [] OTHER -> Raise("TypeError", <<>>)

\* autocomplete walks `for char in prefix`: the characters of the prefix, in
\* either mode (it does not call _get_iterator).
RECURSIVE autocomplete_walk(_, _)
autocomplete_walk(node, cs) ==
    IF cs = <<>>
    THEN traverse(node)
    ELSE LET r == subscript(node, Head(cs))
         IN CASE r.exc = "KeyError" -> Ok(<<>>)
              [] r.exc = "TypeError" -> Raise("TypeError", <<>>)
              [] OTHER -> autocomplete_walk(r.val, Tail(cs))

autocomplete(node, prefix) == autocomplete_walk(node, chars_of(prefix))

(***************************************************************************)
(* Persistence.  A file is a line of text, a sequence of characters.       *)
(* json.dumps writes a dict as {"k": v, ...}, a str between double quotes, *)
(* an int in decimal and None as null; json.loads parses such text.  The   *)
(* characters modelled need no escape inside a JSON string.                *)
(***************************************************************************)
Digits == <<"0", "1", "2", "3", "4", "5", "6", "7", "8", "9">>
Quote == "\""
Newline == "\n"

RECURSIVE int_text(_)
int_text(n) ==
    IF n < 10 THEN <<Digits[n + 1]>> ELSE int_text(n \div 10) \o <<Digits[(n % 10) + 1]>>

RECURSIVE dumps(_)
RECURSIVE dumps_items(_, _)
dumps_items(items, n) ==
    IF n > Len(items)
    THEN <<>>
    ELSE (IF n > 1 THEN <<",", " ">> ELSE <<>>)
         \o <<Quote>> \o items[n][1] \o <<Quote, ":", " ">> \o dumps(items[n][2])
         \o dumps_items(items, n + 1)
dumps(v) ==
    CASE v.tag = "dict" -> <<"{">> \o dumps_items(v.val, 1) \o <<"}">>
      [] v.tag = "str" -> <<Quote>> \o v.val \o <<Quote>>
      [] v.tag = "int" -> int_text(v.val)
      [] OTHER -> <<"n", "u", "l", "l">>

\* input_file.readline(): the text up to and including the first newline.
readline(text) ==
    IF \E i \in 1..Len(text) : text[i] = Newline
    THEN SubSeq(text, 1, CHOOSE i \in 1..Len(text) :
                            text[i] = Newline /\ \A h \in 1..(i - 1) : text[h] # Newline)
    ELSE text

\* The JSON decoder.  A parse is [ok, val, pos]: whether a value was read, the
\* value, and the position after it.
IsDigit(c) == \E d \in 1..Len(Digits) : Digits[d] = c
DigitValue(c) == (CHOOSE d \in 1..Len(Digits) : Digits[d] = c) - 1
Fail == [ok |-> FALSE, val |-> PyNone, pos |-> 0]
Parsed(v, p) == [ok |-> TRUE, val |-> v, pos |-> p]
At(text, p, c) == p <= Len(text) /\ text[p] = c

RECURSIVE skip_ws(_, _)
skip_ws(text, p) ==
    IF p <= Len(text) /\ text[p] \in {" ", Newline} THEN skip_ws(text, p + 1) ELSE p

RECURSIVE parse_digits(_, _, _)
parse_digits(text, p, acc) ==
    IF p <= Len(text) /\ IsDigit(text[p])
    THEN parse_digits(text, p + 1, 10 * acc + DigitValue(text[p]))
    ELSE Parsed(PyInt(acc), p)

\* text[p] is the opening quote.
parse_string(text, p) ==
    IF \E q \in (p + 1)..Len(text) : text[q] = Quote
    THEN LET q == CHOOSE j \in (p + 1)..Len(text) :
                      text[j] = Quote /\ \A h \in (p + 1)..(j - 1) : text[h] # Quote
         IN Parsed(PyStr(SubSeq(text, p + 1, q - 1)), q + 1)
    ELSE Fail

RECURSIVE parse_value(_, _)
RECURSIVE parse_members(_, _, _)
\* p is where a "key": value pair must start; acc holds the pairs read so far
\* (a repeated key keeps its last value).
parse_members(text, p, acc) ==
    IF ~At(text, p, Quote)
    THEN Fail
    ELSE LET k == parse_string(text, p)
             c == IF k.ok THEN skip_ws(text, k.pos) ELSE 0
         IN IF ~k.ok \/ ~At(text, c, ":")
            THEN Fail
            ELSE LET v == parse_value(text, skip_ws(text, c + 1))
                     e == IF v.ok THEN skip_ws(text, v.pos) ELSE 0
                     d == IF v.ok THEN SetItem(acc, k.val.val, v.val) ELSE acc
                 IN CASE ~v.ok -> Fail
                      [] At(text, e, "}") -> Parsed(d, e + 1)
                      [] At(text, e, ",") -> parse_members(text, skip_ws(text, e + 1), d)
                      [] OTHER -> Fail
parse_value(text, p) ==
    CASE At(text, p, "{") ->
           LET q == skip_ws(text, p + 1)
           IN IF At(text, q, "}")
              THEN Parsed(EmptyDict, q + 1)
              ELSE parse_members(text, q, EmptyDict)
      [] At(text, p, Quote) -> parse_string(text, p)
      [] p <= Len(text) /\ IsDigit(text[p]) -> parse_digits(text, p, 0)
      [] p + 3 <= Len(text) /\ SubSeq(text, p, p + 3) = <<"n", "u", "l", "l">> ->
           Parsed(PyNone, p + 4)
      [] OTHER -> Fail

\* json.loads(line): one value, with white space around it and nothing else;
\* ValueError (json.JSONDecodeError) otherwise.
loads(line) ==
    LET r == parse_value(line, skip_ws(line, 1))
    IN IF r.ok /\ skip_ws(line, r.pos) = Len(line) + 1
       THEN Ok(r.val)
       ELSE Raise("ValueError", PyNone)

(***************************************************************************)
(* The state machine: two Trie objects, the cache of the one memoize       *)
(* object that decorates Trie.__contains__, and one file.                  *)
(***************************************************************************)
VARIABLES
    type,     \* type[t]: self.type, fixed at construction (the same for both)
    root,     \* root[t]: self.root
    cache,    \* memoize.cache, keyed by (trie, word)
    file,     \* the file load and unload use: whether it exists, its text, and
              \* who wrote it ("unload", or "foreign" for another program)
    last,     \* the last call: its arguments, outcome, and the root before it
    added,    \* added[t]: the words passed to add or update on t so far
    others,   \* others[t]: the calls other than add and update made to change
              \* root[t]: "assign", "load" (of a file that unload wrote, or of no
              \* file), "load_foreign"
    steps     \* the number of calls made

vars == <<type, root, cache, file, last, added, others, steps>>

MaxSteps == 3

Tries == {"t1", "t2"}
\* Every method is called on the first trie; the second is only loaded and
\* queried for membership.
First == {"t1"}
Types == {"STANDARD", "EXTENDED", "OTHER"}

\* The words used as keys and prefixes: '', 'a', 'a:', 'ab', 'a:b', 'a:b:c'.
Words ==
    { <<>>, <<"a">>, <<"a", ":">>, <<"a", "b">>, <<"a", ":", "b">>,
      <<"a", ":", "b", ":", "c">> }
\* The words assign is called with, and the prefixes autocomplete is called with.
AssignWords == { <<"a">>, <<"a", ":", "b">> }
Prefixes == { <<>>, <<"a">>, <<"a", "b">>, <<"a", ":", "b">> }
\* The lists passed to update.
Corpora == { <<<<"a", ":", "b">>, <<"a">>>> }
\* The (attribute, value) pairs passed to assign.
Attributes == { <<Empty, PyInt(7)>>, <<<<"b">>, PyInt(7)>>, <<<<"b">>, PyStr(<<"x">>)>> }
\* Text put into the file by something other than unload: a JSON number, and
\* a line that is no JSON.
ForeignTexts == { <<"7", Newline>>, <<"{", Quote, "a", Newline>> }

NoCall ==
    [op |-> "none", t |-> "t1", word |-> <<>>, words |-> <<>>, key |-> <<>>,
     value |-> PyNone, exc |-> "none", ret |-> FALSE, out |-> <<>>, pre |-> EmptyDict]

Init ==
    /\ \E m \in Types : type = [t \in Tries |-> m]
    /\ root = [t \in Tries |-> EmptyDict]
    /\ cache = [a \in {} |-> FALSE]
    /\ file = [exists |-> FALSE, text |-> <<>>, by |-> "nobody"]
    /\ last = NoCall
    /\ added = [t \in Tries |-> {}]
    /\ others = [t \in Tries |-> {}]
    /\ steps = 0

Step == steps < MaxSteps /\ steps' = steps + 1

Add(t, word) ==
    /\ Step
    /\ LET r == add(type[t], root[t], word)
       IN /\ root' = [root EXCEPT ![t] = r.val]
          /\ last' = [NoCall EXCEPT !.op = "add", !.t = t, !.word = word,
                                    !.exc = r.exc, !.pre = root[t]]
    /\ added' = [added EXCEPT ![t] = @ \cup {word}]
    /\ UNCHANGED <<type, cache, file, others>>

Update(t, words) ==
    /\ Step
    /\ LET r == update(type[t], root[t], words)
       IN /\ root' = [root EXCEPT ![t] = r.val]
          /\ last' = [NoCall EXCEPT !.op = "update", !.t = t, !.words = words,
                                    !.exc = r.exc, !.pre = root[t]]
    /\ added' = [added EXCEPT ![t] = @ \cup {words[i] : i \in 1..Len(words)}]
    /\ UNCHANGED <<type, cache, file, others>>

\* word in t
Contains(t, word) ==
    /\ Step
    /\ LET r == memoize_call(cache, t, type[t], root[t], word)
       IN /\ cache' = r.cache
          /\ last' = [NoCall EXCEPT !.op = "contains", !.t = t, !.word = word,
                                    !.exc = r.exc, !.ret = r.val, !.pre = root[t]]
    /\ UNCHANGED <<type, root, file, added, others>>

Assign(t, word, key, value) ==
    /\ Step
    /\ LET r == assign(type[t], root[t], word, key, value)
       IN /\ root' = [root EXCEPT ![t] = r.val]
          /\ last' = [NoCall EXCEPT !.op = "assign", !.t = t, !.word = word,
                                    !.key = key, !.value = value,
                                    !.exc = r.exc, !.pre = root[t]]
    /\ others' = [others EXCEPT ![t] = @ \cup {"assign"}]
    /\ UNCHANGED <<type, cache, file, added>>

\* list(t.autocomplete(prefix))
Autocomplete(t, prefix) ==
    /\ Step
    /\ LET r == autocomplete(root[t], prefix)
       IN last' = [NoCall EXCEPT !.op = "autocomplete", !.t = t, !.word = prefix,
                                 !.exc = r.exc, !.out = r.val, !.pre = root[t]]
    /\ UNCHANGED <<type, root, cache, file, added, others>>

Unload(t) ==
    /\ Step
    /\ file' = [exists |-> TRUE, text |-> dumps(root[t]) \o <<Newline>>, by |-> "unload"]
    /\ last' = [NoCall EXCEPT !.op = "unload", !.t = t, !.pre = root[t]]
    /\ UNCHANGED <<type, root, cache, added, others>>

\* (mutant) the root is emptied before the file is opened and parsed.
Load_clearing(t) ==
    /\ Step
    /\ LET r == IF file.exists THEN loads(readline(file.text))
                               ELSE Raise("IOError", PyNone)
       IN /\ root' = [root EXCEPT ![t] = IF r.exc = "none" THEN r.val ELSE EmptyDict]
          /\ last' = [NoCall EXCEPT !.op = "load", !.t = t, !.exc = r.exc,
                                    !.pre = root[t]]
    /\ others' = [others EXCEPT ![t] =
                    @ \cup {IF file.by = "foreign" THEN "load_foreign" ELSE "load"}]
    /\ UNCHANGED <<type, cache, file, added>>

\* open() raises IOError (FileNotFoundError) when there is no file; json.loads
\* raises ValueError; self.root is assigned after both.
Load(t) ==
    /\ Step
    /\ LET r == IF file.exists THEN loads(readline(file.text))
                               ELSE Raise("IOError", PyNone)
       IN /\ root' = [root EXCEPT ![t] = IF r.exc = "none" THEN r.val ELSE @]
          /\ last' = [NoCall EXCEPT !.op = "load", !.t = t, !.exc = r.exc,
                                    !.pre = root[t]]
    /\ others' = [others EXCEPT ![t] =
                    @ \cup {IF file.by = "foreign" THEN "load_foreign" ELSE "load"}]
    /\ UNCHANGED <<type, cache, file, added>>

\* The file is written by another program.
WriteFile(text) ==
    /\ Step
    /\ file' = [exists |-> TRUE, text |-> text, by |-> "foreign"]
    /\ last' = [NoCall EXCEPT !.op = "write"]
    /\ UNCHANGED <<type, root, cache, added, others>>

Next ==
    \/ \E t \in First, word \in Words : Add(t, word)
    \/ \E t \in First, words \in Corpora : Update(t, words)
    \/ \E t \in Tries, word \in Words : Contains(t, word)
    \/ \E t \in First, word \in AssignWords, kv \in Attributes :
           Assign(t, word, kv[1], kv[2])
    \/ \E t \in First, prefix \in Prefixes : Autocomplete(t, prefix)
    \/ \E t \in First : Unload(t)
    \/ \E t \in Tries : Load(t)
    \/ \E text \in ForeignTexts : WriteFile(text)

Spec == Init /\ [][Next]_vars

(***************************************************************************)
(* Vocabulary of the properties.                                           *)
(***************************************************************************)
Modes == {"STANDARD", "EXTENDED"}
Tokens(t, word) == get_iterator(type[t], word).val
NoEmptyToken(t, word) ==
    LET toks == Tokens(t, word) IN \A i \in 1..Len(toks) : toks[i] # Empty
IsPrefix(p, k) == Len(p) <= Len(k) /\ SubSeq(k, 1, Len(p)) = p
Cached(t, word) == <<t, word>> \in DOMAIN cache
\* What `word in t` gives in the current state.
Query(t, word) == memoize_call(cache, t, type[t], root[t], word)
\* Only add and update have changed root[t], with words that have no empty token.
BuiltByAdd(t) ==
    /\ type[t] \in Modes
    /\ others[t] = {}
    /\ \A k \in added[t] : NoEmptyToken(t, k)

\* The value reached from node by following toks through dict items.
RECURSIVE Reach(_, _)
Reach(node, toks) ==
    IF toks = <<>>
    THEN [found |-> TRUE, val |-> node]
    ELSE IF node.tag = "dict" /\ HasKey(node, Head(toks))
         THEN Reach(GetItem(node, Head(toks)), Tail(toks))
         ELSE [found |-> FALSE, val |-> PyNone]
\* The empty word was not passed to add or update on t.
NonEmptyWords(t) == <<>> \notin added[t]
\* toks lead to a node (a dict).
PathExists(node, toks) == Reach(node, toks).found /\ Reach(node, toks).val.tag = "dict"
\* toks lead to a node that carries the terminal marker.
IsKey(node, toks) == PathExists(node, toks) /\ HasKey(Reach(node, toks).val, Empty)
\* Some token of toks is missing in the node that the tokens before it lead to.
MissingToken(node, toks) ==
    \E i \in 1..Len(toks) :
        /\ PathExists(node, SubSeq(toks, 1, i - 1))
        /\ ~HasKey(Reach(node, SubSeq(toks, 1, i - 1)).val, toks[i])

(***************************************************************************)
(* C1.  After add(k) has returned, a contains(k) query on that trie with   *)
(* no cache entry for k returns True, in either mode and in every state.   *)
(***************************************************************************)
C1_AddThenContains ==
    (last.op = "add" /\ last.exc = "none" /\ ~Cached(last.t, last.word))
        => LET q == Query(last.t, last.word) IN q.exc = "none" /\ q.val

\* add(k) returned on a trie that held other words, for a word of two tokens
\* or more, never queried before.
C1_Witness ==
    /\ last.op = "add" /\ last.exc = "none" /\ ~Cached(last.t, last.word)
    /\ last.pre # EmptyDict
    /\ Len(Tokens(last.t, last.word)) >= 2
    /\ Query(last.t, last.word).val

(***************************************************************************)
(* C2.  As stated: for every word never passed to add or update on a trie, *)
(* the first contains query on that trie returns False, in every state the *)
(* trie can reach.  (Stated for tries of a supported mode on which assign  *)
(* was never called and which loaded no file but one that unload wrote,    *)
(* and for non-empty words without an empty token.)                        *)
(***************************************************************************)
C2_NeverAddedIsFalse ==
    \A t \in Tries, k \in Words :
        (/\ type[t] \in Modes
         /\ others[t] \subseteq {"load"}
         /\ \A w \in added[t] \cup {k} : NoEmptyToken(t, w)
         /\ k # <<>>
         /\ k \notin added[t]
         /\ ~Cached(t, k))
            => LET q == Query(t, k) IN q.exc = "none" /\ ~q.val

(***************************************************************************)
(* C2, amended.  On a trie whose root has been changed by add and update   *)
(* alone (no load, no assign), with words that tokenize without an empty   *)
(* token, the first contains query for a word never passed to add or       *)
(* update returns False.                                                   *)
(***************************************************************************)
C2_NeverAddedIsFalseWhenBuiltByAdd ==
    \A t \in Tries, k \in Words :
        (k \notin added[t] /\ ~Cached(t, k) /\ BuiltByAdd(t) /\ NoEmptyToken(t, k))
            => LET q == Query(t, k) IN q.exc = "none" /\ ~q.val

\* A first query for a proper prefix of an added word (the path exists, the
\* terminal marker does not) has returned False.
C2_Witness ==
    /\ last.op = "contains" /\ last.exc = "none" /\ ~last.ret
    /\ BuiltByAdd(last.t) /\ NoEmptyToken(last.t, last.word)
    /\ last.word \notin added[last.t]
    /\ PathExists(root[last.t], Tokens(last.t, last.word))
    /\ Len(Tokens(last.t, last.word)) >= 1

(***************************************************************************)
(* C3.  As stated: for every set of words added and every prefix p, the    *)
(* values autocomplete(p) produces are, as a set, exactly the added words  *)
(* whose token sequence begins with the token sequence of p.  (Stated for  *)
(* tries built by add/update of non-empty words without an empty token.)   *)
(***************************************************************************)
Produced(out) == {out[i] : i \in 1..Len(out)}
Completions(t, p) ==
    {PyStr(k) : k \in {w \in added[t] : IsPrefix(Tokens(t, p), Tokens(t, w))}}

C3_AutocompleteExact ==
    (last.op = "autocomplete" /\ BuiltByAdd(last.t) /\ NonEmptyWords(last.t))
        => (last.exc = "none" /\ Produced(last.out) = Completions(last.t, last.word))

(***************************************************************************)
(* C4.  Once contains(k) has returned r on a trie, every later contains(k) *)
(* on it returns r without recomputation, whatever calls come in between:  *)
(* no call removes or changes a cache entry, and a query for a cached      *)
(* (trie, word) returns the cached value.                                  *)
(***************************************************************************)
C4_CacheNeverInvalidated ==
    [][\A a \in DOMAIN cache :
          /\ a \in DOMAIN cache' /\ cache'[a] = cache[a]
          /\ (last'.op = "contains" /\ <<last'.t, last'.word>> = a)
                => (last'.exc = "none" /\ last'.ret = cache[a])]_vars

\* A stale answer: contains(k) returned the cached False although k has been
\* added since and the walk would now find it.
C4_Witness ==
    /\ last.op = "contains" /\ last.exc = "none" /\ ~last.ret
    /\ last.word \in added[last.t]
    /\ contains(type[last.t], root[last.t], last.word) = Ok(TRUE)

(***************************************************************************)
(* C5.  As stated: in segmented mode with delimiter ':', after             *)
(* add("a:b:c"), autocomplete("a:b") yields "a:b:c".                       *)
(***************************************************************************)
C5_SegmentedAutocomplete ==
    (/\ last.op = "autocomplete" /\ last.word = <<"a", ":", "b">>
     /\ type[last.t] = "EXTENDED" /\ BuiltByAdd(last.t)
     /\ <<"a", ":", "b", ":", "c">> \in added[last.t])
        => PyStr(<<"a", ":", "b", ":", "c">>) \in Produced(last.out)

(***************************************************************************)
(* C6.  As stated: the line unload writes for a trie built by add/update,  *)
(* loaded into a freshly constructed trie of the same mode (no cache entry *)
(* exists for it), gives the same contains result and the same             *)
(* autocomplete outcome as the original for every word added.  (Stated for *)
(* non-empty words without an empty token.)                                *)
(***************************************************************************)
C6_RoundTrip ==
    (last.op = "unload" /\ BuiltByAdd(last.t) /\ NonEmptyWords(last.t))
        => LET t == last.t
               fresh == loads(readline(file.text))
           IN /\ fresh.exc = "none"
              /\ \A k \in added[t] :
                   /\ Query(t, k).exc = contains(type[t], fresh.val, k).exc
                   /\ Query(t, k).val = contains(type[t], fresh.val, k).val
                   /\ autocomplete(root[t], k) = autocomplete(fresh.val, k)

(***************************************************************************)
(* C7.  assign on a word some token of which is missing in the node        *)
(* reached is a silent no-op: it raises nothing and leaves every root and  *)
(* the cache as they were.                                                 *)
(***************************************************************************)
C7_AssignMissingIsNoOp ==
    [][(/\ last'.op = "assign"
        /\ type[last'.t] \in Modes
        /\ MissingToken(root[last'.t], Tokens(last'.t, last'.word)))
          => (last'.exc = "none" /\ root' = root /\ cache' = cache)]_vars

\* assign was called for a word whose first token exists and whose second is
\* missing.
C7_Witness ==
    /\ last.op = "assign" /\ last.exc = "none"
    /\ type[last.t] \in Modes
    /\ MissingToken(last.pre, Tokens(last.t, last.word))
    /\ Len(Tokens(last.t, last.word)) >= 2
    /\ PathExists(last.pre, <<Head(Tokens(last.t, last.word))>>)
    /\ root[last.t] = last.pre

RECURSIVE ReplaceAt(_, _, _)
ReplaceAt(node, toks, new) ==
    IF toks = <<>>
    THEN new
    ELSE PyDict([i \in 1..Len(node.val) |->
                   IF node.val[i][1] = Head(toks)
                   THEN <<Head(toks), ReplaceAt(node.val[i][2], Tail(toks), new)>>
                   ELSE node.val[i]])

C9_AddIdempotent ==
    (last.op = "add" /\ last.exc = "none")
        => add(type[last.t], root[last.t], last.word) = Ok(root[last.t])

\* add(k) was called on a trie that already held k among other words, and
\* changed nothing.
C9_Witness ==
    /\ last.op = "add" /\ last.exc = "none"
    /\ last.pre = root[last.t]
    /\ Cardinality(added[last.t]) >= 2

(***************************************************************************)
(* C10.  As stated: autocomplete(p) for a prefix p that no added word      *)
(* starts with returns an empty sequence and raises nothing.               *)
(***************************************************************************)
C10_NoMatchIsEmpty ==
    (/\ last.op = "autocomplete" /\ BuiltByAdd(last.t) /\ NonEmptyWords(last.t)
     /\ NoEmptyToken(last.t, last.word)
     /\ Completions(last.t, last.word) = {})
        => (last.exc = "none" /\ last.out = <<>>)

(***************************************************************************)
(* C11.  As stated: on a trie whose type is neither STANDARD nor EXTENDED, *)
(* every add, contains, assign and autocomplete call raises                *)
(* NotImplementedError and leaves the root and the cache as they were.     *)
(***************************************************************************)
C11_UnsupportedModeFails ==
    (/\ last.op \in {"add", "contains", "assign", "autocomplete"}
     /\ type[last.t] \notin Modes
     /\ others[last.t] \subseteq {"assign"})
        => /\ last.exc = "NotImplementedError"
           /\ root[last.t] = last.pre
           /\ \A w \in Words : ~Cached(last.t, w)

(***************************************************************************)
(* C12.  As stated: load raises ValueError whenever the line of the file   *)
(* is not the text of a mapping; a line that is well-formed JSON but holds *)
(* a number, a list or a string is rejected and never becomes the root.    *)
(***************************************************************************)
\* The line parses, and to a mapping.
IsMappingText(text) ==
    LET r == loads(readline(text)) IN r.exc = "none" /\ r.val.tag = "dict"

C12_ImportRejectsOtherShapes ==
    (last.op = "load" /\ file.exists /\ ~IsMappingText(file.text))
        => /\ last.exc = "ValueError"
           /\ root[last.t] = last.pre
           /\ root[last.t].tag = "dict"

(***************************************************************************)
(* C13.  As stated: after any add and update calls on a new trie, a node   *)
(* carries the '' item exactly when an added word tokenizes to the path of *)
(* that node, the value of that item is the word, and every other item     *)
(* maps a token to a child node.                                           *)
(***************************************************************************)
\* The token paths of the nodes of the graph under node.
RECURSIVE NodePaths(_)
NodePaths(node) ==
    {<<>>} \cup
    UNION { { <<node.val[i][1]>> \o p : p \in NodePaths(node.val[i][2]) } :
              i \in { j \in 1..Len(node.val) :
                        node.val[j][1] # Empty /\ node.val[j][2].tag = "dict" } }

TerminalMarkers(t) ==
    /\ \A k \in added[t] :
          /\ IsKey(root[t], Tokens(t, k))
          /\ GetItem(Reach(root[t], Tokens(t, k)).val, Empty) = PyStr(k)
    /\ \A p \in NodePaths(root[t]) :
          LET n == Reach(root[t], p).val
          IN \A i \in 1..Len(n.val) :
                IF n.val[i][1] = Empty
                THEN \E k \in added[t] : Tokens(t, k) = p /\ n.val[i][2] = PyStr(k)
                ELSE n.val[i][2].tag = "dict"

C13_TerminalMarkers ==
    \A t \in Tries : (type[t] \in Modes /\ others[t] = {}) => TerminalMarkers(t)

(***************************************************************************)
(* C13, amended: the same, for add and update calls with words that        *)
(* tokenize without an empty token.                                        *)
(***************************************************************************)
C13_TerminalMarkersNoEmptyToken ==
    \A t \in Tries : BuiltByAdd(t) => TerminalMarkers(t)

\* update has added two words, the path of one a proper prefix of the path
\* of the other: one node carries the marker and a child.
C13_Witness ==
    /\ last.op = "update" /\ last.exc = "none" /\ BuiltByAdd(last.t)
    /\ \E k1, k2 \in added[last.t] :
          /\ k1 # k2
          /\ IsPrefix(Tokens(last.t, k1), Tokens(last.t, k2))
          /\ IsKey(root[last.t], Tokens(last.t, k1))
          /\ IsKey(root[last.t], Tokens(last.t, k2))

(***************************************************************************)
(* C14.  As stated: assign with an attribute other than '' conflicts with  *)
(* nothing: it leaves every terminal marker and its value as they were,    *)
(* and after it the uncached contains result of every word and the         *)
(* autocomplete result of every prefix are what they were before, and      *)
(* neither these queries nor a later add raise.                            *)
(***************************************************************************)
\* The terminal markers of the graph under node, each with its path.
Markers(node) ==
    { <<p, GetItem(Reach(node, p).val, Empty)>> :
        p \in { q \in NodePaths(node) : HasKey(Reach(node, q).val, Empty) } }

C14_AssignDoesNotConflict ==
    (/\ last.op = "assign" /\ last.exc = "none" /\ last.key # Empty
     /\ type[last.t] \in Modes
     /\ others[last.t] = {"assign"}
     /\ \A k \in added[last.t] : NoEmptyToken(last.t, k)
     /\ \A k \in Words : add(type[last.t], last.pre, k).exc = "none")
        => LET m == type[last.t]
               now == root[last.t]
           IN /\ Markers(now) = Markers(last.pre)
              /\ \A k \in Words : NoEmptyToken(last.t, k) =>
                    /\ contains(m, now, k) = contains(m, last.pre, k)
                    /\ add(m, now, k).exc = "none"
              /\ \A p \in Prefixes :
                    /\ autocomplete(now, p).exc = autocomplete(last.pre, p).exc
                    /\ Produced(autocomplete(now, p).val)
                         = Produced(autocomplete(last.pre, p).val)

(***************************************************************************)
(* C15.  As stated: on a trie built by add and update, consuming           *)
(* autocomplete(prefix) ends without an exception, and the flattening      *)
(* yields every terminal value under the node the prefix leads to as one   *)
(* whole element, the added word, never split and never recursed into.     *)
(***************************************************************************)
C15_FlatteningKeepsValuesWhole ==
    (last.op = "autocomplete" /\ BuiltByAdd(last.t) /\ NonEmptyWords(last.t))
        => LET at == Reach(root[last.t], chars_of(last.word))
               below == IF at.found /\ at.val.tag = "dict"
                        THEN {m[2] : m \in Markers(at.val)}
                        ELSE {}
           IN /\ last.exc = "none"
              /\ Produced(last.out) = below
              /\ Len(last.out) = Cardinality(below)

(***************************************************************************)
(* C16.  A failed load is atomic: when the file cannot be opened or its    *)
(* line cannot be parsed, load raises and the root is the one before the   *)
(* call; the root is replaced only by the value of a parse that succeeded. *)
(***************************************************************************)
C16_FailedLoadKeepsRoot ==
    (last.op = "load")
        => LET parsed == loads(readline(file.text))
           IN IF file.exists /\ parsed.exc = "none"
              THEN last.exc = "none" /\ root[last.t] = parsed.val
              ELSE /\ last.exc = IF file.exists THEN "ValueError" ELSE "IOError"
                   /\ root[last.t] = last.pre

\* load has raised ValueError on a trie that held a word, and the word is
\* still there.
C16_Witness ==
    /\ last.op = "load" /\ last.exc = "ValueError"
    /\ added[last.t] # {} /\ last.pre # EmptyDict
    /\ root[last.t] = last.pre

(***************************************************************************)
(* C17.  The cache is isolated between tries: a call on one trie neither   *)
(* adds, removes nor changes a cache entry of another trie, nor changes    *)
(* what contains(k) gives on another trie, for every word k; and contains  *)
(* on a trie with no entry of its own for k is computed from its own root, *)
(* whatever entries other tries have for k.                                *)
(***************************************************************************)
C17_CacheIsolated ==
    [][ /\ \A a \in Tries : (a # last'.t \/ last'.op = "write") =>
              \A k \in Words :
                 LET before == memoize_call(cache, a, type[a], root[a], k)
                     after == memoize_call(cache', a, type'[a], root'[a], k)
                 IN /\ (<<a, k>> \in DOMAIN cache') = (<<a, k>> \in DOMAIN cache)
                    /\ (<<a, k>> \in DOMAIN cache) => cache'[<<a, k>>] = cache[<<a, k>>]
                    /\ \/ (cache' = cache /\ type'[a] = type[a] /\ root'[a] = root[a])
                       \/ (after.exc = before.exc /\ after.val = before.val)
        /\ (last'.op = "contains" /\ <<last'.t, last'.word>> \notin DOMAIN cache) =>
              LET own == contains(type[last'.t], root[last'.t], last'.word)
              IN last'.exc = own.exc /\ last'.ret = own.val
      ]_vars

\* contains(k) has just answered on one trie from its own root, while the
\* cache holds the opposite answer for k on the other trie.
C17_Witness ==
    /\ last.op = "contains" /\ last.exc = "none"
    /\ \E a \in Tries \ {last.t} :
          /\ Cached(a, last.word)
          /\ Cached(last.t, last.word)
          /\ cache[<<a, last.word>>] # cache[<<last.t, last.word>>]
          /\ last.ret = cache[<<last.t, last.word>>]
          /\ last.ret = contains(type[last.t], root[last.t], last.word).val

(***************************************************************************)
(* C18.  As stated: after add and update calls only, every node other than *)
(* the root has a terminal marker in itself or in a descendant, so that    *)
(* autocomplete(p) yields something exactly when the token path of p       *)
(* exists from the root.                                                   *)
(***************************************************************************)
\* Every node other than the root has a marker in itself or below.
NoDeadEnds(node) ==
    \A p \in NodePaths(node) \ {<<>>} : Markers(Reach(node, p).val) # {}

C18_NoDeadEnds ==
    (/\ last.op = "autocomplete" /\ BuiltByAdd(last.t) /\ NonEmptyWords(last.t)
     /\ last.word # <<>>)
        => /\ NoDeadEnds(root[last.t])
           /\ last.exc = "none"
           /\ (last.out # <<>>) = PathExists(root[last.t], Tokens(last.t, last.word))

====
